---- MODULE Spec2Model ----
(***************************************************************************)
(* A model of kittengroomer/helpers.py (PyCIRCLean): FileBase, the         *)
(* per-file record with its classifier queries and its dangerous /         *)
(* unknown / binary markers, and KittenGroomerBase, the engine with its    *)
(* tree audit and its guarded filesystem helpers.                          *)
(*                                                                         *)
(* Strings are sequences of one-character strings, so that os.path.split,  *)
(* os.path.splitext, str.endswith, str.split and str.lower are computed    *)
(* character by character as the Python library computes them.             *)
(***************************************************************************)
EXTENDS Integers, Sequences, FiniteSets, TLC

VARIABLES
    fb,         \* the FileBase object under study (state "none" before construction)
    exc,        \* the exception the last FileBase call raised, "none" if it returned
    ret,        \* what the last FileBase call returned: "None", "True", "False"
    hist,       \* the last two calls made on fb, latest first: [op, arg, pre]
    nops,       \* how many calls were made on fb since construction
    sniff,      \* what the filesystem and libmagic answered when fb was constructed
    fs,         \* the filesystem
    fs0,        \* the filesystem as it was when KittenGroomerBase(...) was called
    kg,         \* the KittenGroomerBase object (state "none", "init", "live", "failed")
    py_major,   \* sys.version_info.major
    ehist,      \* the last two steps taken on the engine, latest first
    nkg         \* how many calls the consumer made on the engine

fvars == <<fb, exc, ret, hist, nops, sniff>>

evars == <<fs, fs0, kg, py_major, ehist, nkg>>

vars == <<fb, exc, ret, hist, nops, sniff, fs, fs0, kg, py_major, ehist, nkg>>

----------------------------------------------------------------------------
(* Bounds of the model.                                                    *)

\* Calls made on one FileBase object after its construction.
MaxOps == 3

\* Calls the consumer makes on one engine after its construction.
MaxEngineOps == 2

----------------------------------------------------------------------------
(* Python strings.                                                         *)

EmptyStr == << >>

Slash == "/"

Dot == "."

\* s[i:] for 1-based i (the whole of s for i = 1, empty for i > Len(s)).
From(s, i) == SubSeq(s, i, Len(s))

\* s[:i] exclusive of the 1-based position i.
Upto(s, i) == SubSeq(s, 1, i - 1)

\* str.rfind(c) as a 1-based position, 0 when c does not occur (Python: -1).
RFind(s, c) ==
    LET hits == {i \in 1..Len(s) : s[i] = c}
    IN  IF hits = {} THEN 0 ELSE CHOOSE i \in hits : \A j \in hits : j <= i

\* str.find(c) as a 1-based position, 0 when c does not occur.
Find(s, c) ==
    LET hits == {i \in 1..Len(s) : s[i] = c}
    IN  IF hits = {} THEN 0 ELSE CHOOSE i \in hits : \A j \in hits : i <= j

\* c in s
Contains(s, c) == \E i \in 1..Len(s) : s[i] = c

\* str.endswith(suffix): true of the empty suffix.
EndsWith(s, suffix) ==
    /\ Len(suffix) <= Len(s)
    /\ SubSeq(s, Len(s) - Len(suffix) + 1, Len(s)) = suffix

\* str.startswith(prefix)
StartsWith(s, prefix) ==
    /\ Len(prefix) <= Len(s)
    /\ SubSeq(s, 1, Len(prefix)) = prefix

\* str.rstrip('/')
RECURSIVE RStripSlash(_)
RStripSlash(s) ==
    IF s # EmptyStr /\ s[Len(s)] = Slash
    THEN RStripSlash(SubSeq(s, 1, Len(s) - 1))
    ELSE s

\* s == '/' * len(s)
AllSlashes(s) == \A i \in 1..Len(s) : s[i] = Slash

\* str.split(sep) for a one-character separator: always at least one piece.
RECURSIVE StrSplit(_, _)
StrSplit(s, sep) ==
    LET i == Find(s, sep)
    IN  IF i = 0 THEN <<s>>
        ELSE <<Upto(s, i)>> \o StrSplit(From(s, i + 1), sep)

\* One character of str.lower(), over the letters the model's paths use.
LowerChar(c) ==
    CASE c = "X" -> "x"
      [] c = "C" -> "c"
      [] c = "T" -> "t"
      [] OTHER -> c

\* str.lower()
Lower(s) == [i \in 1..Len(s) |-> LowerChar(s[i])]

----------------------------------------------------------------------------
(* os.path (posixpath).                                                    *)

\* os.path.split(p): (head, tail), head without its trailing slashes unless
\* it is all slashes.
PathSplit(p) ==
    LET i    == RFind(p, Slash) + 1
        head == Upto(p, i)
        tail == From(p, i)
    IN  [head |-> IF head # EmptyStr /\ ~AllSlashes(head)
                  THEN RStripSlash(head) ELSE head,
         tail |-> tail]

\* os.path.join(a, b)
PathJoin(a, b) ==
    IF StartsWith(b, <<Slash>>) THEN b
    ELSE IF a = EmptyStr \/ EndsWith(a, <<Slash>>) THEN a \o b
    ELSE a \o <<Slash>> \o b

\* os.path.basename(p)
Basename(p) == From(p, RFind(p, Slash) + 1)

\* os.path.splitext(p): (root, ext); the extension starts at the last dot of
\* the last component, unless that component is only leading dots before it.
PathSplitext(p) ==
    LET sepIndex == RFind(p, Slash)
        dotIndex == RFind(p, Dot)
    IN  IF dotIndex > sepIndex
           /\ \E k \in (sepIndex + 1)..(dotIndex - 1) : p[k] # Dot
        THEN [root |-> Upto(p, dotIndex), ext |-> From(p, dotIndex)]
        ELSE [root |-> p, ext |-> EmptyStr]

----------------------------------------------------------------------------
(* Python dicts with string keys.                                          *)

\* d[k] = v, also dict.update({k: v})
Put(d, k, v) == [x \in (DOMAIN d) \cup {k} |-> IF x = k THEN v ELSE d[x]]

\* k in d
Has(d, k) == k \in DOMAIN d

----------------------------------------------------------------------------
(* FileBase.                                                               *)

\* The text the markers put around a file name.
DANGEROUS_pre == <<"D","A","N","G","E","R","O","U","S","_">>

DANGEROUS_post == <<"_","D","A","N","G","E","R","O","U","S">>

UNKNOWN_pre == <<"U","N","K","N","O","W","N","_">>

bin_post == <<".","b","i","n">>

\* 'inode/symlink', and its two halves.
inode == <<"i","n","o","d","e">>

symlink == <<"s","y","m","l","i","n","k">>

InodeSymlink == inode \o <<Slash>> \o symlink

\* No FileBase object: before construction, or when __init__ raised.
NoFile ==
    [state |-> "none", src_path |-> EmptyStr, dst_path |-> EmptyStr,
     log_details |-> [k \in {} |-> TRUE], log_string |-> EmptyStr,
     extension |-> EmptyStr, mimetype |-> EmptyStr,
     main_type |-> EmptyStr, sub_type |-> EmptyStr, link_target |-> EmptyStr]

\* _determine_extension without the .lower().
determine_extension_as_is(src_path) == PathSplitext(src_path).ext

\* _determine_extension
determine_extension(src_path) == Lower(PathSplitext(src_path).ext)

\* The main_type, sub_type = mimetype.split('/') of _determine_mimetype: the
\* pieces, and whether the unpacking into two names raises ValueError.
split_mimetype(mimetype) ==
    IF mimetype # EmptyStr /\ Contains(mimetype, Slash)
    THEN LET parts == StrSplit(mimetype, Slash)
         IN  IF Len(parts) = 2
             THEN [raises |-> FALSE, main_type |-> parts[1], sub_type |-> parts[2]]
             ELSE [raises |-> TRUE, main_type |-> EmptyStr, sub_type |-> EmptyStr]
    ELSE [raises |-> FALSE, main_type |-> EmptyStr, sub_type |-> EmptyStr]

\* What the filesystem and libmagic answer about src_path when __init__
\* runs: islink, the link's target, the value magic.from_file returns, or
\* the UnicodeEncodeError it raises.
SniffEnv(islink, target, mt, unicode_error) ==
    [islink |-> islink, target |-> target, mt |-> mt, unicode_error |-> unicode_error]

\* _determine_mimetype: the mimetype and the log_details after the sniff.
determine_mimetype(log_details, env) ==
    IF env.islink
    THEN [mimetype |-> InodeSymlink, log_details |-> log_details]
    ELSE IF env.unicode_error
    THEN [mimetype |-> EmptyStr,
          log_details |-> Put(log_details, "UnicodeError", <<"e">>)]
    ELSE [mimetype |-> env.mt, log_details |-> log_details]

\* FileBase.__init__: the object, or NoFile with the exception raised.
FileBase_init(src_path, dst_path, env) ==
    LET log0 == [k \in {"filepath"} |-> src_path]
        ext  == determine_extension(src_path)
        m    == determine_mimetype(log0, env)
        sp   == split_mimetype(m.mimetype)
    IN  IF sp.raises
        THEN [obj |-> NoFile, exc |-> "ValueError"]
        ELSE [obj |-> [state |-> "live", src_path |-> src_path,
                       dst_path |-> dst_path, log_details |-> m.log_details,
                       log_string |-> EmptyStr, extension |-> ext,
                       mimetype |-> m.mimetype, main_type |-> sp.main_type,
                       sub_type |-> sp.sub_type,
                       link_target |-> IF env.islink THEN env.target ELSE EmptyStr],
              exc |-> "none"]

\* is_dangerous, is_unknown, is_binary
is_dangerous(f) == Has(f.log_details, "dangerous")

is_unknown(f) == Has(f.log_details, "unknown")

is_binary(f) == Has(f.log_details, "binary")

\* has_mimetype assigning a new dict to log_details, where the code updates it.
has_mimetype_resets_log(f) ==
    IF f.main_type = EmptyStr \/ f.sub_type = EmptyStr
    THEN [obj |-> [f EXCEPT !.log_details = [k \in {"broken_mime"} |-> TRUE]],
          ret |-> "False"]
    ELSE [obj |-> f, ret |-> "True"]

\* has_mimetype: the object after the call and the value returned.
has_mimetype(f) ==
    IF f.main_type = EmptyStr \/ f.sub_type = EmptyStr
    THEN [obj |-> [f EXCEPT !.log_details = Put(@, "broken_mime", TRUE)],
          ret |-> "False"]
    ELSE [obj |-> f, ret |-> "True"]

\* has_extension
has_extension(f) ==
    IF f.extension = EmptyStr
    THEN [obj |-> [f EXCEPT !.log_details = Put(@, "no_extension", TRUE)],
          ret |-> "False"]
    ELSE [obj |-> f, ret |-> "True"]

\* is_symlink without the has_mimetype() call: the types alone are compared.
is_symlink_ungated(f) ==
    IF f.main_type = inode /\ f.sub_type = symlink
    THEN [obj |-> [f EXCEPT !.log_details = Put(@, "symlink", f.link_target)],
          ret |-> "True"]
    ELSE [obj |-> f, ret |-> "False"]

\* is_symlink: has_mimetype() runs first, with its effect on log_details.
is_symlink(f) ==
    LET h == has_mimetype(f)
    IN  IF h.ret = "True" /\ f.main_type = inode /\ f.sub_type = symlink
        THEN [obj |-> [h.obj EXCEPT !.log_details = Put(@, "symlink", f.link_target)],
              ret |-> "True"]
        ELSE [obj |-> h.obj, ret |-> "False"]

\* make_dangerous without its is_dangerous() guard: every call wraps again.
make_dangerous_unguarded(f) ==
    LET s == PathSplit(f.dst_path)
    IN  [f EXCEPT !.log_details = Put(@, "dangerous", TRUE),
                  !.dst_path = PathJoin(s.head, DANGEROUS_pre \o s.tail \o DANGEROUS_post)]

\* make_dangerous
make_dangerous(f) ==
    IF is_dangerous(f) THEN f
    ELSE LET s == PathSplit(f.dst_path)
         IN  [f EXCEPT !.log_details = Put(@, "dangerous", TRUE),
                       !.dst_path = PathJoin(s.head, DANGEROUS_pre \o s.tail \o DANGEROUS_post)]

\* make_unknown guarded by is_dangerous() alone, as make_binary is.
make_unknown_ignores_binary(f) ==
    IF is_dangerous(f) THEN f
    ELSE LET s == PathSplit(f.dst_path)
         IN  [f EXCEPT !.log_details = Put(@, "unknown", TRUE),
                       !.dst_path = PathJoin(s.head, UNKNOWN_pre \o s.tail)]

\* make_unknown
make_unknown(f) ==
    IF is_dangerous(f) \/ is_binary(f) THEN f
    ELSE LET s == PathSplit(f.dst_path)
         IN  [f EXCEPT !.log_details = Put(@, "unknown", TRUE),
                       !.dst_path = PathJoin(s.head, UNKNOWN_pre \o s.tail)]

\* make_binary without its is_dangerous() guard.
make_binary_unguarded(f) ==
    LET s == PathSplit(f.dst_path)
    IN  [f EXCEPT !.log_details = Put(@, "binary", TRUE),
                  !.dst_path = PathJoin(s.head, s.tail \o bin_post)]

\* make_binary
make_binary(f) ==
    IF is_dangerous(f) THEN f
    ELSE LET s == PathSplit(f.dst_path)
         IN  [f EXCEPT !.log_details = Put(@, "binary", TRUE),
                       !.dst_path = PathJoin(s.head, s.tail \o bin_post)]

\* force_ext comparing os.path.splitext(dst_path)[1] with ext.
force_ext_by_splitext(f, ext) ==
    IF PathSplitext(f.dst_path).ext # ext
    THEN [f EXCEPT !.log_details = Put(@, "force_ext", TRUE),
                   !.dst_path = @ \o ext]
    ELSE f

\* force_ext
force_ext(f, ext) ==
    IF ~EndsWith(f.dst_path, ext)
    THEN [f EXCEPT !.log_details = Put(@, "force_ext", TRUE),
                   !.dst_path = @ \o ext]
    ELSE f

----------------------------------------------------------------------------
(* The filesystem: a function from the absolute, normalised paths that      *)
(* exist to their nodes. A file's content is a sequence of lines, so that   *)
(* content.log and the files the tree audit hashes are of one kind.         *)

\* One line of a file: a line of content.log as the tree audit formats it
\* (kind "sep", "dir", "file" or "link"), or the whole of an ordinary file's
\* data (kind "data", the data named by name).
Line(kind, padding, name, target, sha1) ==
    [kind |-> kind, padding |-> padding, name |-> name, target |-> target, sha1 |-> sha1]

\* The content of an ordinary file holding the data called tag.
Data(tag) == <<Line("data", EmptyStr, <<tag>>, EmptyStr, << >>)>>

\* The nodes. mode is the owner's write permission, "rw" or "r": the process
\* is an ordinary user, whom open() refuses a file it may not write.
DirNode == [kind |-> "dir", content |-> << >>, target |-> EmptyStr, mode |-> "rw"]

FileNodeMode(content, mode) ==
    [kind |-> "file", content |-> content, target |-> EmptyStr, mode |-> mode]

\* A file as open() creates it.
FileNode(content) == FileNodeMode(content, "rw")

LinkNode(target) == [kind |-> "link", content |-> << >>, target |-> target, mode |-> "rw"]

\* The process's working directory.
Cwd == <<Slash>>

\* The components of a path after os.path.normpath: no empty one, no '.',
\* and each '..' taken with the component before it.
RECURSIVE NormComps(_, _)
NormComps(comps, acc) ==
    IF comps = << >> THEN acc
    ELSE IF Head(comps) = EmptyStr \/ Head(comps) = <<Dot>>
    THEN NormComps(Tail(comps), acc)
    ELSE IF Head(comps) = <<Dot, Dot>>
    THEN NormComps(Tail(comps),
                   IF acc = << >> THEN acc ELSE SubSeq(acc, 1, Len(acc) - 1))
    ELSE NormComps(Tail(comps), Append(acc, Head(comps)))

RECURSIVE JoinComps(_)
JoinComps(comps) ==
    IF comps = << >> THEN EmptyStr
    ELSE <<Slash>> \o Head(comps) \o JoinComps(Tail(comps))

\* The absolute path of the components comps: the root for none.
JoinRoot(comps) == IF comps = << >> THEN <<Slash>> ELSE JoinComps(comps)

\* os.path.abspath(p): normpath(join(cwd, p)), an absolute path.
AbsPath(p) == JoinRoot(NormComps(StrSplit(PathJoin(Cwd, p), Slash), << >>))

\* The directory holding the absolute path p.
Parent(p) == PathSplit(p).head

\* The kind of the node at the absolute path a: "none" when nothing is there.
NodeKind(fsys, a) == IF a \in DOMAIN fsys THEN fsys[a].kind ELSE "none"

\* What lstat(p) finds at p, links not followed.
LKind(fsys, p) == IF p = EmptyStr THEN "none" ELSE NodeKind(fsys, AbsPath(p))

\* lstat(p) succeeds: something, a dangling link included, is at p.
LExists(fsys, p) == LKind(fsys, p) # "none"

\* os.path.islink(p)
IsLink(fsys, p) == LKind(fsys, p) = "link"

\* os.readlink(p)
ReadLink(fsys, p) == fsys[AbsPath(p)].target

\* Where the absolute path a leads once the links at its end are followed
\* (fuel of them at most): the absolute path of a node that is no link, or None.
None == <<"None">>

RECURSIVE Resolve(_, _, _)
Resolve(fsys, a, fuel) ==
    IF a \notin DOMAIN fsys \/ fuel = 0 THEN None
    ELSE IF fsys[a].kind = "link"
    THEN Resolve(fsys, AbsPath(PathJoin(Parent(a), fsys[a].target)), fuel - 1)
    ELSE a

\* Links followed when a path is resolved (Linux gives up after 40).
MAXSYMLINKS == 40

Real(fsys, p) == IF p = EmptyStr THEN None ELSE Resolve(fsys, AbsPath(p), MAXSYMLINKS)

\* What stat(p) finds at p, links followed.
Kind(fsys, p) == NodeKind(fsys, Real(fsys, p))

\* os.path.exists(p), os.path.isdir(p), os.path.isfile(p): links followed.
Exists(fsys, p) == Kind(fsys, p) # "none"

IsDir(fsys, p) == Kind(fsys, p) = "dir"

IsFile(fsys, p) == Kind(fsys, p) = "file"

\* q is p or lies under the directory p (absolute paths).
Under(p, q) ==
    \/ q = p
    \/ IF p = <<Slash>> THEN StartsWith(q, p) ELSE StartsWith(q, p \o <<Slash>>)

\* The names in the directory at the absolute path d.
Names(fsys, d) == {Basename(q) : q \in {x \in DOMAIN fsys : x # d /\ Parent(x) = d}}

\* os.listdir(p) of a directory: the names in it.
ListDir(fsys, p) == Names(fsys, Real(fsys, p))

\* fsys with node put at the absolute path a.
WithNode(fsys, a, node) ==
    [x \in (DOMAIN fsys) \cup {a} |-> IF x = a THEN node ELSE fsys[x]]

\* The result of a filesystem call: the filesystem after it and the
\* exception it raised ("none" if it returned).
FsResult(fsys, e) == [fs |-> fsys, exc |-> e]

\* os.mkdir of the absolute path a, in a parent of kind parent_kind.
MkdirAt(fsys, a, parent_kind) ==
    IF a \in DOMAIN fsys THEN FsResult(fsys, "FileExistsError")
    ELSE IF parent_kind = "none" THEN FsResult(fsys, "FileNotFoundError")
    ELSE IF parent_kind # "dir" THEN FsResult(fsys, "NotADirectoryError")
    ELSE FsResult(WithNode(fsys, a, DirNode), "none")

MkdirAbs(fsys, a) == MkdirAt(fsys, a, Kind(fsys, Parent(a)))

\* os.mkdir(p)
Mkdir(fsys, p) ==
    IF p = EmptyStr THEN FsResult(fsys, "FileNotFoundError")
    ELSE MkdirAbs(fsys, AbsPath(p))

\* os.makedirs(name): the missing parents first (a FileExistsError from
\* them is passed over), then the leaf.
RECURSIVE Makedirs(_, _)
\* The leaf, after the parents gave up.
MakedirsLeaf(up, name) ==
    IF up.exc \notin {"none", "FileExistsError"} THEN up ELSE Mkdir(up.fs, name)

\* head, tail = path.split(name), split once more when tail is empty.
MakedirsSplit(s0) == IF s0.tail = EmptyStr THEN PathSplit(s0.head) ELSE s0

MakedirsFrom(fsys, name, s) ==
    IF s.head # EmptyStr /\ s.tail # EmptyStr /\ ~Exists(fsys, s.head)
    THEN MakedirsLeaf(Makedirs(fsys, s.head), name)
    ELSE Mkdir(fsys, name)

Makedirs(fsys, name) == MakedirsFrom(fsys, name, MakedirsSplit(PathSplit(name)))

\* shutil.rmtree of the absolute path a, where lstat finds kind.
RmtreeAt(fsys, a, kind) ==
    IF kind = "link" THEN FsResult(fsys, "OSError")
    ELSE IF kind = "none" THEN FsResult(fsys, "FileNotFoundError")
    ELSE IF kind # "dir" THEN FsResult(fsys, "NotADirectoryError")
    ELSE FsResult([x \in {y \in DOMAIN fsys : ~Under(a, y)} |-> fsys[x]], "none")

\* shutil.rmtree(p): p and everything under it, links not followed.
Rmtree(fsys, p) == RmtreeAt(fsys, AbsPath(p), LKind(fsys, p))

\* An open file, or the exception open() raised: where the file is.
Opened(e, a) == [exc |-> e, at |-> a]

\* open() for writing of the absolute path a that leads nowhere: the file
\* is created in a directory that exists.
OpenMissing(fsys, a, parent_kind) ==
    IF a \in DOMAIN fsys THEN Opened("FileNotFoundError", None)
    ELSE IF parent_kind = "none" THEN Opened("FileNotFoundError", None)
    ELSE IF parent_kind # "dir" THEN Opened("NotADirectoryError", None)
    ELSE Opened("none", a)

\* open() for writing of the absolute path a that leads to real.
OpenAt(fsys, a, real) ==
    IF real = None THEN OpenMissing(fsys, a, Kind(fsys, Parent(a)))
    ELSE IF fsys[real].kind = "dir" THEN Opened("IsADirectoryError", None)
    ELSE IF fsys[real].mode = "r" THEN Opened("PermissionError", None)
    ELSE Opened("none", real)

\* open(p, mode) for writing: where the file is, or the exception. A link
\* is followed; a missing file is created in a directory that exists.
OpenForWrite(fsys, p) ==
    IF p = EmptyStr THEN Opened("FileNotFoundError", None)
    ELSE OpenAt(fsys, AbsPath(p), Real(fsys, p))

\* The file opened as o, truncated, now holds content.
Stored(fsys, o, content) ==
    IF o.exc # "none" THEN FsResult(fsys, o.exc)
    ELSE FsResult(WithNode(fsys, o.at, FileNode(content)), "none")

\* The file opened as o is there, with what it held.
Kept(fsys, o) ==
    IF o.exc # "none" THEN FsResult(fsys, o.exc)
    ELSE IF o.at \in DOMAIN fsys THEN FsResult(fsys, "none")
    ELSE FsResult(WithNode(fsys, o.at, FileNode(<< >>)), "none")

\* open(p, 'wb') or open(p, 'w+'): the file is created or truncated.
OpenTruncate(fsys, p) == Stored(fsys, OpenForWrite(fsys, p), << >>)

\* open(p, 'ab'): the file is created if missing, its content kept.
OpenAppend(fsys, p) == Kept(fsys, OpenForWrite(fsys, p))

\* shutil.copyfile, of the source that leads to real_src, to the path to
\* that leads to real_to: the same file is refused; src is opened for
\* reading, then to is created or truncated and written.
copyfile(fsys, real_src, to, real_to) ==
    IF real_src # None /\ real_src = real_to THEN FsResult(fsys, "SameFileError")
    ELSE IF real_src = None THEN FsResult(fsys, "FileNotFoundError")
    ELSE IF fsys[real_src].kind = "dir" THEN FsResult(fsys, "IsADirectoryError")
    ELSE Stored(fsys, OpenForWrite(fsys, to), fsys[real_src].content)

shutil_copyfile(fsys, src, to) == copyfile(fsys, Real(fsys, src), to, Real(fsys, to))

\* os.chmod of the file at the absolute path at.
chmod(fsys, at, mode) == WithNode(fsys, at, [fsys[at] EXCEPT !.mode = mode])

\* shutil.copymode(src, to) once copyfile gave r: the copy takes the
\* permission bits of the source.
copymode(r, real_src, to) ==
    IF r.exc # "none" THEN r
    ELSE FsResult(chmod(r.fs, Real(r.fs, to), r.fs[real_src].mode), "none")

\* shutil.copy once the file to write is known: copyfile, then copymode.
copy_to(fsys, src, to) == copymode(shutil_copyfile(fsys, src, to), Real(fsys, src), to)

\* shutil.copy(src, dst): into dst when it is a directory.
shutil_copy(fsys, src, dst) ==
    copy_to(fsys, src, IF IsDir(fsys, dst) THEN PathJoin(dst, Basename(src)) ELSE dst)

----------------------------------------------------------------------------
(* sorted(): strings compared by code point.                               *)

\* The characters of the model's file names, in the order of their code points.
CodePointOrder ==
    <<"'", ".", "/", "A", "B", "C", "T", "X", "Z", "_",
      "a", "b", "c", "d", "e", "g", "i", "k", "l", "m", "n", "o", "p", "q",
      "r", "s", "t", "w", "x", "z">>

CharCode(c) == CHOOSE i \in 1..Len(CodePointOrder) : CodePointOrder[i] = c

\* a < b for Python strings.
StrLess(a, b) ==
    \E k \in 1..Len(b) :
        /\ k <= Len(a) + 1
        /\ \A j \in 1..(k - 1) : a[j] = b[j]
        /\ k = Len(a) + 1 \/ CharCode(a[k]) < CharCode(b[k])

\* sorted(names)
RECURSIVE Sorted(_)
Sorted(names) ==
    IF names = {} THEN << >>
    ELSE LET m == CHOOSE x \in names : \A y \in names : x = y \/ StrLess(x, y)
         IN  <<m>> \o Sorted(names \ {m})

----------------------------------------------------------------------------
(* The tree audit: KittenGroomerBase.tree, __tree_py2, __tree_py3.          *)

\* The padding tree() starts with, and what each level adds to it.
Padding0 == <<" ", " ", " ">>

PaddingStep == <<"|", " ", " ">>

\* The buffer of a file object open() returns (io.DEFAULT_BUFFER_SIZE):
\* what is written stays in it until it would overflow, or the file is closed.
DEFAULT_BUFFER_SIZE == 8192

\* The bytes of a line of content.log as tree() formats it.
LineBytes(l) ==
    CASE l.kind = "sep"  -> 81
      [] l.kind = "dir"  -> Len(l.padding) + 3 + Len(l.name) + 2
      [] l.kind = "file" -> Len(l.padding) + 4 + Len(l.name) + 3 + 40 + 1
      [] l.kind = "link" -> Len(l.padding) + 4 + Len(l.name) + 3 + 17 + Len(l.target) + 1
      [] OTHER -> 0

\* A file object open for appending: the lines still in its buffer and their bytes.
NewHandle == [buf |-> << >>, bytes |-> 0]

\* A filesystem and a file object open on it; exc is the exception raised
\* while the file object was open ("none" if none was).
Writing(fsys, h, e) == [fs |-> fsys, h |-> h, exc |-> e]

\* The lines in the buffer reach the file at the absolute path at: they are
\* appended to what the file holds by then (O_APPEND).
FlushAt(fsys, at, h) ==
    Writing(WithNode(fsys, at, [fsys[at] EXCEPT !.content = @ \o h.buf]), NewHandle, "none")

Flush(fsys, path, h) == FlushAt(fsys, Real(fsys, path), h)

\* The line l, of n bytes, joins the buffer of w.
Buffered(w, l, n) ==
    Writing(w.fs, [buf |-> Append(w.h.buf, l), bytes |-> w.h.bytes + n], "none")

WriteBytes(fsys, path, h, l, n) ==
    Buffered(IF h.bytes + n > DEFAULT_BUFFER_SIZE
             THEN Flush(fsys, path, h)
             ELSE Writing(fsys, h, "none"),
             l, n)

\* lf.write(line)
Write(fsys, path, h, l) == WriteBytes(fsys, path, h, l, LineBytes(l))

\* lf.write(line) on the file object of w.
WriteOn(w, path, l) == Write(w.fs, path, w.h, l)

\* The with-block of w ends: the file object is closed, its buffer flushed,
\* and the exception raised in the block, if any, goes on.
Close(w, path) == FsResult(Flush(w.fs, path, w.h).fs, w.exc)

\* The name in a directory's header line: Python 3 formats the bytes object
\* that .encode() returns, b'name'; Python 2 the name.
HeaderName(py, base_dir) ==
    IF py = 2 THEN Basename(AbsPath(base_dir))
    ELSE <<"b", "'">> \o Basename(AbsPath(base_dir)) \o <<"'">>

\* _computehash(path): the SHA-1 of what the file holds when it is read,
\* kept as that content itself.
computehash(fsys, path) == fsys[Real(fsys, path)].content

\* tree(base_dir, padding), and its loop over the sorted names: each call
\* opens content.log anew, with a buffer of its own that reaches the file
\* when the call's with-block ends. The result: the filesystem after the
\* call and the exception it raised.
RECURSIVE tree(_, _, _, _, _)
RECURSIVE tree_loop(_, _, _, _, _, _, _)
\* The call self.tree(curpath, padding) returned r while h was open.
tree_sub(r, h) == Writing(r.fs, h, r.exc)

\* The body of the loop for the name f, curpath = os.path.join(base_dir, f).
tree_entry(fsys, log_content, py, h, padding, f, curpath) ==
    IF IsLink(fsys, curpath)
    THEN Write(fsys, log_content, h,
               Line("link", padding, f, ReadLink(fsys, curpath), << >>))
    ELSE IF IsDir(fsys, curpath)
    THEN tree_sub(tree(fsys, log_content, py, curpath, padding), h)
    ELSE IF IsFile(fsys, curpath)
    THEN Write(fsys, log_content, h,
               Line("file", padding, f, EmptyStr, computehash(fsys, curpath)))
    ELSE Writing(fsys, h, "none")

\* The loop goes on after the body left w, unless it raised.
tree_rest(w, log_content, py, base_dir, padding, files) ==
    IF w.exc # "none" THEN w
    ELSE tree_loop(w.fs, log_content, py, w.h, base_dir, padding, files)

tree_loop(fsys, log_content, py, h, base_dir, padding, files) ==
    IF files = << >> THEN Writing(fsys, h, "none")
    ELSE tree_rest(tree_entry(fsys, log_content, py, h, padding,
                              Head(files), PathJoin(base_dir, Head(files))),
                   log_content, py, base_dir, padding, Tail(files))

\* The with-block of a tree call, once the two header lines are written.
tree_listing(w, log_content, py, base_dir, padding) ==
    IF ~IsDir(w.fs, base_dir)
    THEN Writing(w.fs, w.h,
                 IF Exists(w.fs, base_dir) THEN "NotADirectoryError"
                 ELSE "FileNotFoundError")
    ELSE tree_loop(w.fs, log_content, py, w.h, base_dir, padding \o PaddingStep,
                   Sorted(ListDir(w.fs, base_dir)))

\* A tree call once content.log is opened as o.
tree_opened(o, log_content, py, base_dir, padding) ==
    IF o.exc # "none" THEN o
    ELSE Close(tree_listing(
                   WriteOn(WriteOn(Writing(o.fs, NewHandle, "none"), log_content,
                                   Line("sep", EmptyStr, EmptyStr, EmptyStr, << >>)),
                           log_content,
                           Line("dir", padding, HeaderName(py, base_dir), EmptyStr, << >>)),
                   log_content, py, base_dir, padding),
               log_content)

tree(fsys, log_content, py, base_dir, padding) ==
    tree_opened(OpenAppend(fsys, log_content), log_content, py, base_dir, padding)

----------------------------------------------------------------------------
(* KittenGroomerBase.                                                      *)

logs == <<"l", "o", "g", "s">>

processing_log == <<"p","r","o","c","e","s","s","i","n","g",".","l","o","g">>

content_log == <<"c","o","n","t","e","n","t",".","l","o","g">>

debug_stderr_log == <<"d","e","b","u","g","_","s","t","d","e","r","r",".","l","o","g">>

debug_stdout_log == <<"d","e","b","u","g","_","s","t","d","o","u","t",".","l","o","g">>

devnull == <<"/","d","e","v","/","n","u","l","l">>

\* No engine object: before construction.
NoEngine ==
    [state |-> "none", pc |-> 0,
     src_root_dir |-> EmptyStr, dst_root_dir |-> EmptyStr, log_root_dir |-> EmptyStr,
     log_processing |-> EmptyStr, log_content |-> EmptyStr,
     cur_file |-> NoFile, debug |-> FALSE,
     log_debug_err |-> EmptyStr, log_debug_out |-> EmptyStr]

\* What a call on the engine gives: the filesystem and the engine after it,
\* the value returned ("None", "True", "False", "file" for an open file
\* object) and the exception raised ("none" if the call returned).
KgResult(fsys, k, r, e) == [fs |-> fsys, kg |-> k, ret |-> r, exc |-> e]

\* _safe_rmtree
safe_rmtree(fsys, directory) ==
    IF Exists(fsys, directory) THEN Rmtree(fsys, directory) ELSE FsResult(fsys, "none")

\* _safe_mkdir
safe_mkdir(fsys, directory) ==
    IF ~Exists(fsys, directory) THEN Makedirs(fsys, directory) ELSE FsResult(fsys, "none")

\* The statements of KittenGroomerBase.__init__, in the order they run.
init_steps == <<"rmtree", "mkdir", "tree", "quick_setup", "finish">>

\* A statement of __init__ that gave r leaves the engine k; what it raised
\* goes on to the caller.
Stmt(r, k) == KgResult(r.fs, k, "None", r.exc)

\* self.log_processing and self.log_content are set: lines 169-170.
with_log_paths(k) ==
    [k EXCEPT !.log_processing = PathJoin(k.log_root_dir, processing_log),
              !.log_content = PathJoin(k.log_root_dir, content_log)]

\* self.tree(self.src_root_dir)
tree_of_source(fsys, k, py) ==
    Stmt(tree(fsys, k.log_content, py, k.src_root_dir, Padding0), k)

\* self.cur_file and the debug logs are set: lines 178-186.
with_debug_logs(k) ==
    [k EXCEPT !.cur_file = NoFile,
              !.log_debug_err = IF k.debug
                                THEN PathJoin(k.log_root_dir, debug_stderr_log)
                                ELSE devnull,
              !.log_debug_out = IF k.debug
                                THEN PathJoin(k.log_root_dir, debug_stdout_log)
                                ELSE devnull]

\* A constructor that sets the log paths and skips the audit.
init_step_without_audit(step, fsys, k, py) ==
    CASE step = "rmtree" -> Stmt(safe_rmtree(fsys, k.log_root_dir), k)
      [] step = "mkdir" -> Stmt(safe_mkdir(fsys, k.log_root_dir), k)
      [] step = "tree" -> KgResult(fsys, with_log_paths(k), "None", "none")
      [] step = "quick_setup" -> Stmt(OpenAppend(fsys, k.log_processing), k)
      [] step = "finish" -> KgResult(fsys, with_debug_logs(k), "None", "none")

\* One statement of __init__ run on the filesystem and the half-built engine.
init_step(step, fsys, k, py) ==
    CASE step = "rmtree" -> Stmt(safe_rmtree(fsys, k.log_root_dir), k)
      [] step = "mkdir" -> Stmt(safe_mkdir(fsys, k.log_root_dir), k)
      [] step = "tree" -> tree_of_source(fsys, with_log_paths(k), py)
      [] step = "quick_setup" -> Stmt(OpenAppend(fsys, k.log_processing), k)
      [] step = "finish" -> KgResult(fsys, with_debug_logs(k), "None", "none")

\* try: ... return ok / except Exception: return False, for the block that
\* gave r.
try_except(r, k, ok) ==
    KgResult(r.fs, k, IF r.exc # "none" THEN "False" ELSE ok, "none")

\* The try block of _safe_copy once _safe_mkdir gave m.
safe_copy_made(m, s, d) == IF m.exc # "none" THEN m ELSE shutil_copy(m.fs, s, d)

safe_copy_try(fsys, k, s, d) ==
    try_except(safe_copy_made(safe_mkdir(fsys, PathSplit(d).head), s, d), k, "True")

\* _safe_copy(src, dst): None stands for an argument left out.
safe_copy(fsys, k, src, dst) ==
    IF (src = None \/ dst = None) /\ k.cur_file.state = "none"
    THEN KgResult(fsys, k, "None", "AttributeError")
    ELSE safe_copy_try(fsys, k,
                       IF src = None THEN k.cur_file.src_path ELSE src,
                       IF dst = None THEN k.cur_file.dst_path ELSE dst)

\* The try block of _safe_metadata_split once _safe_mkdir gave m.
metadata_split_made(m, dst, ext) ==
    IF m.exc # "none" THEN m ELSE OpenTruncate(m.fs, dst \o ext)

\* A split that looks for the metadata file at the destination.
metadata_split_try_at_dst(fsys, k, src, dst, ext) ==
    IF Exists(fsys, dst \o ext)
    THEN try_except(FsResult(fsys, "KittenGroomerError"), k, "file")
    ELSE try_except(metadata_split_made(safe_mkdir(fsys, PathSplit(dst).head), dst, ext),
                    k, "file")

metadata_split_try(fsys, k, src, dst, ext) ==
    IF Exists(fsys, src \o ext)
    THEN try_except(FsResult(fsys, "KittenGroomerError"), k, "file")
    ELSE try_except(metadata_split_made(safe_mkdir(fsys, PathSplit(dst).head), dst, ext),
                    k, "file")

\* _safe_metadata_split(ext)
safe_metadata_split(fsys, k, ext) ==
    IF k.cur_file.state = "none"
    THEN KgResult(fsys, k, "None", "AttributeError")
    ELSE metadata_split_try(fsys, k, k.cur_file.src_path, k.cur_file.dst_path, ext)

\* A processdir with a default that does nothing and returns.
processdir_returns(fsys, k, src_dir, dst_dir) == KgResult(fsys, k, "None", "none")

\* processdir(src_dir, dst_dir): None stands for an argument left out.
processdir(fsys, k, src_dir, dst_dir) ==
    KgResult(fsys, k, "None", "ImplementationRequired")

----------------------------------------------------------------------------
(* The inputs of the FileBase specification.                               *)

SrcPaths ==
    { <<"/","s","/","x",".","c">>,
      <<"/","s","/","X",".","C">>,
      <<"/","s","/","x">>,
      <<"/","s","/",".","c">>,
      <<"/","s",".","d","/","x">>,
      <<"/","s","/","x",".","T",".","C">> }

DstPaths ==
    { <<"/","d","/","x",".","c">>,
      <<"/","d","/",".","c">>,
      <<"x">>,
      <<"/","d",".","c","/","x">>,
      <<"d","/","/","x",".","t">>,
      <<"/","d","/">> }

\* Values magic.from_file(path, mime=True) hands back: a full type, a bare
\* word, the empty string, a value with two slashes (libmagic's error
\* texts quote the path), a value ending in the slash.
MimeValues ==
    { <<"t","e","x","t","/","p","l","a","i","n">>,
      <<"d","a","t","a">>,
      EmptyStr,
      <<"a","/","b","/","c">>,
      <<"t","e","x","t","/">> }

SniffEnvs ==
    {SniffEnv(TRUE, <<"x",".","c">>, EmptyStr, FALSE)}
    \cup {SniffEnv(FALSE, EmptyStr, mt, FALSE) : mt \in MimeValues}
    \cup {SniffEnv(FALSE, EmptyStr, EmptyStr, TRUE)}

\* The ext arguments of force_ext.
Exts ==
    { <<".","c">>, <<".","t">>, <<"c">>, EmptyStr }

NoArg == EmptyStr

----------------------------------------------------------------------------
(* The FileBase specification: one object is constructed, then any of its  *)
(* methods is called, MaxOps times at most.                                *)

FInit ==
    /\ fb = NoFile
    /\ exc = "none"
    /\ ret = "None"
    /\ hist = << >>
    /\ nops = 0
    /\ sniff = SniffEnv(FALSE, EmptyStr, EmptyStr, FALSE)

\* FileBase(src_path, dst_path)
Construct ==
    /\ fb.state = "none"
    /\ exc = "none"
    /\ \E src \in SrcPaths, dst \in DstPaths, env \in SniffEnvs :
          LET r == FileBase_init(src, dst, env)
          IN  /\ fb' = r.obj
              /\ exc' = r.exc
              /\ sniff' = env
    /\ UNCHANGED <<ret, hist, nops>>
    /\ UNCHANGED evars

\* A call of method op with argument arg that leaves object obj and returns r.
Call(op, arg, obj, r) ==
    /\ fb.state = "live"
    /\ nops < MaxOps
    /\ fb' = obj
    /\ ret' = r
    /\ hist' = SubSeq(<<[op |-> op, arg |-> arg, pre |-> fb, ret |-> r]>> \o hist, 1,
                      IF Len(hist) = 0 THEN 1 ELSE 2)
    /\ nops' = nops + 1
    /\ UNCHANGED <<exc, sniff>>
    /\ UNCHANGED evars

MakeDangerous == Call("make_dangerous", NoArg, make_dangerous(fb), "None")

MakeUnknown == Call("make_unknown", NoArg, make_unknown(fb), "None")

MakeBinary == Call("make_binary", NoArg, make_binary(fb), "None")

ForceExt == \E ext \in Exts : Call("force_ext", ext, force_ext(fb, ext), "None")

HasMimetype == Call("has_mimetype", NoArg, has_mimetype(fb).obj, has_mimetype(fb).ret)

HasExtension == Call("has_extension", NoArg, has_extension(fb).obj, has_extension(fb).ret)

IsSymlink == Call("is_symlink", NoArg, is_symlink(fb).obj, is_symlink(fb).ret)

Next ==
    \/ Construct
    \/ MakeDangerous
    \/ MakeUnknown
    \/ MakeBinary
    \/ ForceExt
    \/ HasMimetype
    \/ HasExtension
    \/ IsSymlink

\* No engine, on an empty filesystem.
EIdle ==
    /\ fs = [x \in {<<Slash>>} |-> DirNode]
    /\ fs0 = fs
    /\ kg = NoEngine
    /\ py_major = 3
    /\ ehist = << >>
    /\ nkg = 0

Init == FInit /\ EIdle

Spec == Init /\ [][Next]_vars

----------------------------------------------------------------------------
(* The inputs of the engine specification.                                 *)

\* A path from its components.
P(comps) == JoinComps(comps)

s_dir == P(<< <<"s">> >>)

s_a == P(<< <<"s">>, <<"a">> >>)

s_a_m == P(<< <<"s">>, <<"a", ".", "m">> >>)

s_b == P(<< <<"s">>, <<"b">> >>)

s_b_c == P(<< <<"s">>, <<"b">>, <<"c">> >>)

s_b_l == P(<< <<"s">>, <<"b">>, <<"l">> >>)

s_z == P(<< <<"s">>, <<"z">> >>)

d_dir == P(<< <<"d">> >>)

d_logs == P(<< <<"d">>, logs >>)

d_n_a == P(<< <<"d">>, <<"n">>, <<"a">> >>)

\* A function from the pairs <<path, node>> of a set.
FsOf(pairs) == [x \in {pr[1] : pr \in pairs} |-> (CHOOSE pr \in pairs : pr[1] = x)[2]]

\* The source trees: one with a subdirectory holding a file and a link, and
\* a file that is read-only; one flat with a file beside a.m, the name a
\* metadata file of a would take.
SourceTrees ==
    { { <<s_dir, DirNode>>, <<s_a, FileNode(Data("c1"))>>, <<s_b, DirNode>>,
        <<s_b_c, FileNode(Data("c2"))>>, <<s_b_l, LinkNode(s_a)>>,
        <<s_z, FileNodeMode(Data("c2"), "r")>> },
      { <<s_dir, DirNode>>, <<s_a, FileNode(Data("c1"))>>,
        <<s_a_m, FileNode(Data("c3"))>>, <<s_z, FileNode(Data("c2"))>> } }

\* The destination before the run: missing, holding the logs of an earlier
\* run, or with a file where the logs directory goes.
DestTrees ==
    { {},
      { <<d_dir, DirNode>>, <<d_logs, DirNode>>,
        <<PathJoin(d_logs, content_log), FileNode(Data("old"))>>,
        <<PathJoin(d_logs, processing_log), FileNode(Data("old"))>> },
      { <<d_dir, DirNode>>, <<d_logs, FileNode(Data("old"))>> } }

\* root_src and root_dst: apart, or the same directory as in the tests.
RootPairs == { <<s_dir, d_dir>>, <<s_dir, s_dir>> }

\* The src and dst arguments of _safe_copy: two files and a directory (or,
\* in the flat tree, a missing path); a path whose directories are to be
\* made, an existing file, a bare name, a directory.
CopySrcs == {s_a, s_z, s_b}

CopyDsts == {d_n_a, s_a, <<"a">>, s_b}

\* The src_path and dst_path of the FileBase the consumer makes current.
CurFilePairs == { <<s_a, d_n_a>>, <<s_z, s_a>>, <<s_a, PathJoin(s_z, <<"x">>)>> }

\* The ext arguments of _safe_metadata_split.
SplitExts == { EmptyStr, <<".", "m">> }

\* The src_dir and dst_dir arguments of processdir: left out, as in the
\* test, or the two roots.
ProcessdirArgs == { <<None, None>>, <<s_dir, d_dir>> }

----------------------------------------------------------------------------
(* The engine specification: an engine is constructed statement by         *)
(* statement, then the consumer calls it, MaxEngineOps times at most.      *)

EInit ==
    /\ \E src \in SourceTrees, dst \in DestTrees :
          fs = FsOf({<< <<Slash>>, DirNode >>} \cup src \cup dst)
    /\ fs0 = fs
    /\ kg = NoEngine
    /\ py_major \in {2, 3}
    /\ ehist = << >>
    /\ nkg = 0

\* A step on the engine, as ehist keeps it: the arguments, the value
\* returned, the exception raised, the filesystem and the current file
\* before the step, and the current file after it.
Event(op, src, dst, ext, r) ==
    [op |-> op, src |-> src, dst |-> dst, ext |-> ext, ret |-> r.ret, exc |-> r.exc,
     pre |-> fs, cur |-> kg.cur_file, cur_after |-> r.kg.cur_file]

Remember(e) == ehist' = SubSeq(<<e>> \o ehist, 1, IF Len(ehist) = 0 THEN 1 ELSE 2)

\* KittenGroomerBase(root_src, root_dst, debug) is called: lines 164-166.
KGBegin ==
    /\ kg.state = "none"
    /\ \E roots \in RootPairs, debug \in BOOLEAN :
          kg' = [NoEngine EXCEPT !.state = "init", !.pc = 1,
                                 !.src_root_dir = roots[1],
                                 !.dst_root_dir = roots[2],
                                 !.log_root_dir = PathJoin(roots[2], logs),
                                 !.debug = debug]
    /\ fs0' = fs
    /\ UNCHANGED <<fs, py_major, ehist, nkg>>
    /\ UNCHANGED fvars

\* The next statement of __init__ runs; an exception ends the construction.
KGInitStep ==
    /\ kg.state = "init"
    /\ LET step == init_steps[kg.pc]
           r    == init_step(step, fs, kg, py_major)
       IN  /\ fs' = r.fs
           /\ kg' = IF r.exc # "none" THEN [r.kg EXCEPT !.state = "failed"]
                    ELSE IF kg.pc = Len(init_steps) THEN [r.kg EXCEPT !.state = "live"]
                    ELSE [r.kg EXCEPT !.pc = kg.pc + 1]
           /\ Remember(Event(step, EmptyStr, EmptyStr, EmptyStr, r))
    /\ UNCHANGED <<fs0, py_major, nkg>>
    /\ UNCHANGED fvars

\* A call the consumer makes on the constructed engine, with result r.
KGCall(op, src, dst, ext, r) ==
    /\ kg.state = "live"
    /\ nkg < MaxEngineOps
    /\ fs' = r.fs
    /\ kg' = r.kg
    /\ Remember(Event(op, src, dst, ext, r))
    /\ nkg' = nkg + 1
    /\ UNCHANGED <<fs0, py_major>>
    /\ UNCHANGED fvars

\* kg.cur_file = FileBase(src, dst), of a source that is a file or a link.
SetCurFile ==
    /\ kg.state = "live"
    /\ kg.cur_file.state = "none"
    /\ \E pair \in CurFilePairs :
          /\ IsFile(fs, pair[1]) \/ IsLink(fs, pair[1])
          /\ kg' = [kg EXCEPT !.cur_file =
                        FileBase_init(pair[1], pair[2],
                                      SniffEnv(IsLink(fs, pair[1]),
                                               IF IsLink(fs, pair[1])
                                               THEN ReadLink(fs, pair[1])
                                               ELSE EmptyStr,
                                               <<"t","e","x","t","/","p","l","a","i","n">>,
                                               FALSE)).obj]
    /\ UNCHANGED <<fs, fs0, py_major, ehist, nkg>>
    /\ UNCHANGED fvars

SafeCopy ==
    \E src \in CopySrcs, dst \in CopyDsts :
        KGCall("_safe_copy", src, dst, EmptyStr, safe_copy(fs, kg, src, dst))

SafeCopyCurFile ==
    KGCall("_safe_copy", None, None, EmptyStr, safe_copy(fs, kg, None, None))

SafeMetadataSplit ==
    \E ext \in SplitExts :
        KGCall("_safe_metadata_split", EmptyStr, EmptyStr, ext,
               safe_metadata_split(fs, kg, ext))

TreeCall ==
    KGCall("tree", kg.src_root_dir, EmptyStr, EmptyStr,
           LET r == tree(fs, kg.log_content, py_major, kg.src_root_dir, Padding0)
           IN  KgResult(r.fs, kg, "None", r.exc))

Processdir ==
    \E args \in ProcessdirArgs :
        KGCall("processdir", args[1], args[2], EmptyStr,
               processdir(fs, kg, args[1], args[2]))

EngineNext ==
    \/ KGBegin
    \/ KGInitStep
    \/ SetCurFile
    \/ SafeCopy
    \/ SafeCopyCurFile
    \/ SafeMetadataSplit
    \/ TreeCall
    \/ Processdir

EngineInit == FInit /\ EInit

EngineSpec == EngineInit /\ [][EngineNext]_vars

----------------------------------------------------------------------------
(* Reading the history of calls.                                           *)

\* The last call was op.
LastIs(op) == Len(hist) >= 1 /\ hist[1].op = op

\* The last two calls were first, then second.
LastTwoAre(first, second) ==
    Len(hist) = 2 /\ hist[2].op = first /\ hist[1].op = second

MarkerOps == {"make_dangerous", "make_unknown", "make_binary"}

MarkerKeys == {"dangerous", "unknown", "binary"}

\* The marker keys present in an object's log_details.
Markers(f) == MarkerKeys \cap DOMAIN f.log_details

\* p = q + suffix for some q, stated without str.endswith.
IsSuffix(suffix, p) == \E k \in 0..Len(p) : SubSeq(p, 1, k) \o suffix = p

----------------------------------------------------------------------------
(* C1 *)

\* C1, as stated: in every state reachable by make_dangerous, make_unknown
\* and make_binary calls, at most one of the keys 'dangerous', 'unknown',
\* 'binary' is present in log_details.
C1_AtMostOneMarkerKey ==
    fb.state = "live" => Cardinality(Markers(fb)) <= 1

\* C1, amended: the marker keys can coexist; what every call keeps is their
\* order of arrival. No call removes a marker key, no call adds a key to a
\* record that has 'dangerous', no call adds 'unknown' to a record that has
\* 'binary', and a call adds at most one marker key.
C1_MarkerKeysArriveInOrder ==
    Len(hist) >= 1 =>
        LET before == Markers(hist[1].pre)
            after  == Markers(fb)
        IN  /\ before \subseteq after
            /\ Cardinality(after \ before) <= 1
            /\ "dangerous" \in before => after = before
            /\ "binary" \in before => ("unknown" \in after <=> "unknown" \in before)

\* C1 witness: a record that carries the three marker keys at once.
C1_Witness ==
    /\ fb.state = "live"
    /\ Markers(fb) = MarkerKeys
    /\ LastIs("make_dangerous")

----------------------------------------------------------------------------
(* C2 *)

\* C2: dangerous is absorbing. make_dangerous from any state ends with
\* 'dangerous' set; from a record that is not dangerous it wraps the
\* basename of dst_path once, as DANGEROUS_<name>_DANGEROUS, in the same
\* directory; once 'dangerous' is set, make_dangerous, make_unknown and
\* make_binary leave dst_path and log_details as they are, so that two
\* make_dangerous calls give the dst_path of one.
C2_DangerousAbsorbing ==
    /\ LastIs("make_dangerous") =>
          /\ is_dangerous(fb)
          /\ ~is_dangerous(hist[1].pre) =>
                /\ Basename(fb.dst_path)
                       = DANGEROUS_pre \o Basename(hist[1].pre.dst_path) \o DANGEROUS_post
                /\ PathSplit(fb.dst_path).head = PathSplit(hist[1].pre.dst_path).head
    /\ (Len(hist) >= 1 /\ hist[1].op \in MarkerOps /\ is_dangerous(hist[1].pre)) =>
          /\ fb.dst_path = hist[1].pre.dst_path
          /\ fb.log_details = hist[1].pre.log_details
    /\ LastTwoAre("make_dangerous", "make_dangerous") =>
          fb.dst_path = hist[1].pre.dst_path

\* C2 witness: make_dangerous called twice on a record that was marked
\* binary, not dangerous, before the first call.
C2_Witness ==
    /\ LastTwoAre("make_dangerous", "make_dangerous")
    /\ is_binary(hist[2].pre)
    /\ ~is_dangerous(hist[2].pre)
    /\ is_dangerous(fb)

----------------------------------------------------------------------------
(* C3 *)

\* make_unknown on a record already dangerous or binary does not set 'unknown'.
UnknownBlocked ==
    (LastIs("make_unknown") /\ (is_dangerous(hist[1].pre) \/ is_binary(hist[1].pre))) =>
        /\ is_unknown(fb) <=> is_unknown(hist[1].pre)
        /\ fb.dst_path = hist[1].pre.dst_path

\* make_binary then make_unknown, on the records start admits: 'unknown' is
\* unset and the basename is <name>.bin.
BinaryThenUnknown(start(_)) ==
    (LastTwoAre("make_binary", "make_unknown") /\ start(hist[2].pre)) =>
        /\ ~is_unknown(fb)
        /\ is_binary(fb)
        /\ Basename(fb.dst_path) = Basename(hist[2].pre.dst_path) \o bin_post

\* make_unknown then make_binary, on the records start admits: both keys are
\* set and the basename is UNKNOWN_<name>.bin.
UnknownThenBinary(start(_)) ==
    (LastTwoAre("make_unknown", "make_binary") /\ start(hist[2].pre)) =>
        /\ is_unknown(fb)
        /\ is_binary(fb)
        /\ Basename(fb.dst_path)
               = UNKNOWN_pre \o Basename(hist[2].pre.dst_path) \o bin_post

NotDangerous(f) == ~is_dangerous(f)

NotDangerousNorUnknown(f) == ~is_dangerous(f) /\ ~is_unknown(f)

NotDangerousNorBinary(f) == ~is_dangerous(f) /\ ~is_binary(f)

\* C3, as stated: for every record that is not dangerous, make_binary then
\* make_unknown leaves 'unknown' unset and the basename <name>.bin, and
\* make_unknown then make_binary leaves both keys set and the basename
\* UNKNOWN_<name>.bin; make_unknown on a dangerous or binary record never
\* sets 'unknown'.
C3_OrderMattersIfNotDangerous ==
    /\ BinaryThenUnknown(NotDangerous)
    /\ UnknownThenBinary(NotDangerous)
    /\ UnknownBlocked

\* C3, amended: the first order holds of the records that are neither
\* dangerous nor already unknown, the second of the records that are neither
\* dangerous nor already binary.
C3_OrderMatters ==
    /\ BinaryThenUnknown(NotDangerousNorUnknown)
    /\ UnknownThenBinary(NotDangerousNorBinary)
    /\ UnknownBlocked

\* C3 witness: make_unknown then make_binary on an unmarked record.
C3_Witness ==
    /\ LastTwoAre("make_unknown", "make_binary")
    /\ Markers(hist[2].pre) = {}
    /\ Markers(fb) = {"unknown", "binary"}

----------------------------------------------------------------------------
(* C4 *)

\* force_ext(ext) appended ext and set 'force_ext' exactly when appends holds
\* of the path before the call and ext; otherwise it changed nothing.
ForceExtAppendsWhen(appends(_, _)) ==
    LastIs("force_ext") =>
        LET pre == hist[1].pre
            ext == hist[1].arg
        IN  IF appends(pre.dst_path, ext)
            THEN /\ fb.dst_path = pre.dst_path \o ext
                 /\ Has(fb.log_details, "force_ext")
                 /\ fb.log_details["force_ext"] = TRUE
            ELSE /\ fb.dst_path = pre.dst_path
                 /\ fb.log_details = pre.log_details

ExtensionDiffers(p, ext) == PathSplitext(p).ext # ext

NotASuffix(p, ext) == ~IsSuffix(ext, p)

\* C4, as stated: force_ext(ext) appends ext to dst_path and sets
\* log_details['force_ext'] exactly when the extension of dst_path differs
\* from ext, and is a no-op otherwise.
C4_ForceExtByExtension == ForceExtAppendsWhen(ExtensionDiffers)

\* C4, amended: force_ext(ext) appends ext and sets log_details['force_ext']
\* exactly when dst_path does not end with the string ext, and is a no-op
\* otherwise.
C4_ForceExtBySuffix == ForceExtAppendsWhen(NotASuffix)

\* C4 witness: '.t' forced on a path whose extension is '.c'.
C4_Witness ==
    /\ LastIs("force_ext")
    /\ hist[1].arg = <<".", "t">>
    /\ PathSplitext(hist[1].pre.dst_path).ext = <<".", "c">>
    /\ PathSplitext(fb.dst_path).ext = <<".", "t">>
    /\ IsSuffix(<<".", "c", ".", "t">>, fb.dst_path)

----------------------------------------------------------------------------
(* C5 *)

\* is_symlink returns True exactly of a record whose types are inode and
\* symlink, and then log_details gains the link's target under 'symlink'.
IsSymlinkOnLinks ==
    LastIs("is_symlink") =>
        LET pre == hist[1].pre
        IN  /\ ret = "True" <=> (pre.main_type = inode /\ pre.sub_type = symlink)
            /\ ret \in {"True", "False"}
            /\ ret = "True" =>
                  fb.log_details = Put(pre.log_details, "symlink", pre.link_target)

\* C5, as stated: is_symlink is True iff main_type is 'inode' and sub_type
\* 'symlink', and then records the target under 'symlink'; on any other
\* record, one with an empty type included, it returns False and leaves
\* log_details unchanged.
C5_NoLogChangeOnNonSymlink ==
    /\ IsSymlinkOnLinks
    /\ (LastIs("is_symlink") /\ ret = "False") =>
          fb.log_details = hist[1].pre.log_details

\* C5, amended: on a record that is not a symlink, is_symlink returns False
\* and leaves log_details unchanged when both types are set; when main_type
\* or sub_type is empty it returns False and log_details gains
\* 'broken_mime': True, the effect of the has_mimetype call it makes, and
\* nothing else.
C5_BrokenMimeOnNonSymlink ==
    /\ IsSymlinkOnLinks
    /\ (LastIs("is_symlink") /\ ret = "False") =>
          LET pre == hist[1].pre
          IN  IF pre.main_type = EmptyStr \/ pre.sub_type = EmptyStr
              THEN fb.log_details = Put(pre.log_details, "broken_mime", TRUE)
              ELSE fb.log_details = pre.log_details
    /\ LastIs("is_symlink") =>
          [fb EXCEPT !.log_details = hist[1].pre.log_details] = hist[1].pre

\* C5 witness: is_symlink answered False on a record with an empty type.
C5_Witness ==
    /\ LastIs("is_symlink")
    /\ ret = "False"
    /\ hist[1].pre.main_type = EmptyStr
    /\ ~Has(hist[1].pre.log_details, "broken_mime")
    /\ Has(fb.log_details, "broken_mime")

----------------------------------------------------------------------------
(* C6 *)

\* C6: for every value the sniff returns, constructing a FileBase completes
\* without raising, with main_type and sub_type both empty or both set.
C6_TypesTogether ==
    /\ exc = "none"
    /\ fb.state = "live" => (fb.main_type = EmptyStr <=> fb.sub_type = EmptyStr)

----------------------------------------------------------------------------
(* Reading the history of the engine's steps.                              *)

\* The statement step of __init__ has run and raised nothing.
Done(step) ==
    \E i \in 1..Len(init_steps) :
        /\ init_steps[i] = step
        /\ \/ kg.state = "live"
           \/ kg.state \in {"init", "failed"} /\ i < kg.pc

\* The engine is under construction and step is the statement to run next.
About(step) == kg.state = "init" /\ init_steps[kg.pc] = step

\* The lines the file at path holds in fsys: none when there is no such file.
LinesOf(fsys, path) == IF IsFile(fsys, path) THEN fsys[Real(fsys, path)].content ELSE << >>

\* <destination>/logs/content.log and <destination>/logs/processing.log
ContentLog == PathJoin(kg.log_root_dir, content_log)

ProcessingLog == PathJoin(kg.log_root_dir, processing_log)

\* p is a prefix of q.
IsPrefix(p, q) == Len(p) <= Len(q) /\ SubSeq(q, 1, Len(p)) = p

\* The padding of the lines tree() writes for what lies depth levels below
\* the directory it was called on.
RECURSIVE Pad(_)
Pad(depth) == IF depth = 0 THEN Padding0 ELSE Pad(depth - 1) \o PaddingStep

\* How many levels the absolute path x lies below the absolute path root.
Slashes(p) == Cardinality({i \in 1..Len(p) : p[i] = Slash})

Depth(root, x) == Slashes(x) - Slashes(root)

\* The name in the header line of the directory at the absolute path x.
Header(x) ==
    IF py_major = 2 THEN Basename(x) ELSE <<"b", "'">> \o Basename(x) \o <<"'">>

\* l is the line tree(root) writes for the node at the absolute path x of
\* fsys: a directory's header, a file's or a link's line.
EntryLine(l, fsys, root, x) ==
    /\ l.kind = fsys[x].kind
    /\ l.name = IF l.kind = "dir" THEN Header(x) ELSE Basename(x)
    /\ l.target = fsys[x].target
    /\ l.padding = Pad(Depth(root, x))

\* The positions in lines of the line of x.
EntryAt(lines, fsys, root, x) ==
    {i \in 1..Len(lines) : EntryLine(lines[i], fsys, root, x)}

\* The steps of a consumer: what runs on a constructed engine.
ConsumerOps == {"_safe_copy", "_safe_metadata_split", "processdir"}

----------------------------------------------------------------------------
(* C7: the constructor resets the log directory and audits the source      *)
(* before anything is processed.                                           *)

\* The baseline: the content log of fsys has the line of everything that
\* was under the source root, and outside the log directory that is reset,
\* when the construction began; a file's line carries the hash of what the
\* file held then.
Baseline(fsys) ==
    LET lines == LinesOf(fsys, ContentLog)
    IN  \A x \in DOMAIN fs0 :
            (Under(kg.src_root_dir, x) /\ ~Under(kg.log_root_dir, x))
            => \E i \in 1..Len(lines) :
                  /\ EntryLine(lines[i], fs0, kg.src_root_dir, x)
                  /\ fs0[x].kind = "file" => lines[i].sha1 = fs0[x].content

\* What is in fsys and was not in fs0 is in the log directory, or is a
\* directory made on the way to it; what was in fs0 outside the log
\* directory is as it was.
OnlyLogsTouched(fsys) ==
    /\ \A x \in DOMAIN fs0 :
          ~Under(kg.log_root_dir, x) => x \in DOMAIN fsys /\ fsys[x] = fs0[x]
    /\ \A x \in (DOMAIN fsys) \ (DOMAIN fs0) :
          \/ Under(kg.log_root_dir, x)
          \/ fsys[x].kind = "dir" /\ Under(x, kg.log_root_dir)

\* C7: When the construction reaches the tree audit, <destination>/logs is
\* a directory with nothing in it, whatever it held before. The processing
\* log is there (once the old log directory is gone) only after the audit
\* has written the baseline. Until the engine is constructed nothing
\* outside the log directory is copied or changed. A consumer's step
\* (processdir, _safe_copy, _safe_metadata_split) runs only on a
\* constructed engine, on a filesystem whose content log holds the baseline.
C7_AuditBeforeProcessing ==
    /\ About("tree") =>
          /\ IsDir(fs, kg.log_root_dir)
          /\ Names(fs, AbsPath(kg.log_root_dir)) = {}
    /\ (kg.state \in {"init", "live"} /\ Done("rmtree") /\ LExists(fs, ProcessingLog))
          => Done("tree") /\ Baseline(fs)
    /\ kg.state \in {"init", "failed"} => OnlyLogsTouched(fs)
    /\ kg.state = "live" => Baseline(fs)
    /\ \A i \in 1..Len(ehist) :
          ehist[i].op \in ConsumerOps => kg.state = "live" /\ Baseline(ehist[i].pre)

\* C7 witness: an engine constructed over the log directory of an earlier
\* run, whose old content log is gone, after a consumer's successful copy.
C7_Witness ==
    /\ kg.state = "live"
    /\ ContentLog \in DOMAIN fs0
    /\ fs0[ContentLog].content = Data("old")
    /\ ~IsPrefix(Data("old"), LinesOf(fs, ContentLog))
    /\ Len(ehist) >= 1
    /\ ehist[1].op = "_safe_copy"
    /\ ehist[1].ret = "True"
    /\ Baseline(ehist[1].pre)

----------------------------------------------------------------------------
(* C8: the content log as a pre-order listing.                             *)

\* The lines the latest step added to the content log.
Added ==
    SubSeq(LinesOf(fs, ContentLog),
           Len(LinesOf(ehist[1].pre, ContentLog)) + 1, Len(LinesOf(fs, ContentLog)))

\* The nodes tree(root) lists: what lies under the source root.
Audited == {x \in DOMAIN fs : Under(AbsPath(kg.src_root_dir), x)}

\* C8 (the claim as the spec states it, which the code does not keep): after
\* tree(root) has returned, the lines written before it are still the
\* head of the content log, and in the lines it added every directory's
\* header comes before the line of each of its children, and the children of
\* a directory come in the order of their sorted names.
C8_PreOrderListing ==
    (Len(ehist) >= 1 /\ ehist[1].op = "tree" /\ ehist[1].exc = "none") =>
        /\ IsPrefix(LinesOf(ehist[1].pre, ContentLog), LinesOf(fs, ContentLog))
        /\ \A d \in Audited, x \in Audited :
              (fs[d].kind = "dir" /\ x # d /\ Parent(x) = d) =>
                  \E i \in EntryAt(Added, fs, AbsPath(kg.src_root_dir), d) :
                      \E j \in EntryAt(Added, fs, AbsPath(kg.src_root_dir), x) : i < j
        /\ \A x \in Audited, y \in Audited :
              (Parent(x) = Parent(y) /\ StrLess(Basename(x), Basename(y))
                 /\ x # AbsPath(kg.src_root_dir) /\ y # AbsPath(kg.src_root_dir)) =>
                  \E i \in EntryAt(Added, fs, AbsPath(kg.src_root_dir), x) :
                      \E j \in EntryAt(Added, fs, AbsPath(kg.src_root_dir), y) : i < j

----------------------------------------------------------------------------
(* C9: _safe_copy twice to the same destination.                           *)

\* C9 (the claim as the spec states it, which the code does not keep): a
\* _safe_copy(src, dst) never raises, and when a _safe_copy to dst has
\* returned True, a second one to the same dst, which is no directory, of
\* a source that is a regular file and not the destination itself, returns
\* True too and leaves dst holding what the second source holds, the
\* sources unchanged.
C9_SecondCopySucceeds ==
    /\ \A i \in 1..Len(ehist) :
          (ehist[i].op = "_safe_copy" /\ ehist[i].src # None /\ ehist[i].dst # None)
              => ehist[i].exc = "none"
    /\ (/\ Len(ehist) = 2
        /\ ehist[1].op = "_safe_copy" /\ ehist[2].op = "_safe_copy"
        /\ ehist[1].src # None /\ ehist[1].dst # None
        /\ ehist[2].dst = ehist[1].dst
        /\ ehist[2].ret = "True"
        /\ IsFile(ehist[1].pre, ehist[1].src)
        /\ ~IsDir(ehist[1].pre, ehist[1].dst)
        /\ Real(ehist[1].pre, ehist[1].src) # Real(ehist[1].pre, ehist[1].dst))
       => /\ ehist[1].ret = "True"
          /\ LinesOf(fs, ehist[1].dst) = LinesOf(ehist[1].pre, ehist[1].src)
          /\ LinesOf(fs, ehist[1].src) = LinesOf(ehist[1].pre, ehist[1].src)

----------------------------------------------------------------------------
(* C10: _safe_metadata_split.                                              *)

\* The latest step was _safe_metadata_split(ext) with a current file.
SplitCalled ==
    /\ Len(ehist) >= 1
    /\ ehist[1].op = "_safe_metadata_split"
    /\ ehist[1].cur.state # "none"

\* The path the split looks for, and the path of the file it opens.
SplitSrc == ehist[1].cur.src_path \o ehist[1].ext

SplitDst == ehist[1].cur.dst_path \o ehist[1].ext

\* The split left everything that was there before it as it was.
SplitKept(but) ==
    \A x \in (DOMAIN ehist[1].pre) \ but : x \in DOMAIN fs /\ fs[x] = ehist[1].pre[x]

----------------------------------------------------------------------------
(* C11: processdir on the base engine.                                     *)

\* C11: a call of processdir on the constructed base engine, whatever its
\* arguments and whatever was done on the engine before, raises
\* ImplementationRequired and returns nothing; the filesystem is as it was
\* before the call (no file is copied), and so is the current file, its
\* log_details and dst_path included (no record is marked).
C11_ProcessdirRaises ==
    \A i \in 1..Len(ehist) :
        ehist[i].op = "processdir" =>
            /\ ehist[i].exc = "ImplementationRequired"
            /\ ehist[i].ret = "None"
            /\ ehist[i].cur_after = ehist[i].cur
            /\ i = 1 => fs = ehist[1].pre
            /\ i = 2 => ehist[1].pre = ehist[2].pre

\* C11 witness: processdir called with both arguments on an engine that has
\* a current file and has copied a file, and it raised.
C11_Witness ==
    /\ Len(ehist) = 2
    /\ ehist[2].op = "_safe_copy"
    /\ ehist[2].ret = "True"
    /\ ehist[1].op = "processdir"
    /\ ehist[1].src # None
    /\ ehist[1].cur.state = "live"
    /\ ehist[1].exc = "ImplementationRequired"
    /\ fs = ehist[1].pre
    /\ fs # ehist[2].pre

----------------------------------------------------------------------------
(* C12: extension and has_extension.                                       *)

\* The name with the dots it begins with taken off.
RECURSIVE StripDots(_)
StripDots(name) ==
    IF name # EmptyStr /\ Head(name) = Dot THEN StripDots(Tail(name)) ELSE name

\* The extension component of a path: in its last component, what starts at
\* the last dot that follows a character other than a dot; empty if there
\* is no such dot.
ExtComponent(p) ==
    LET rest == StripDots(Basename(p))
    IN  IF Contains(rest, Dot) THEN From(rest, RFind(rest, Dot)) ELSE EmptyStr

\* s is t in lowercase: the same length, and each character the lowercase
\* of the one in its place.
IsLowerOf(s, t) ==
    /\ Len(s) = Len(t)
    /\ \A i \in 1..Len(t) :
          \/ s[i] = t[i] /\ t[i] \notin {"X", "C", "T"}
          \/ <<t[i], s[i]>> \in {<<"X", "x">>, <<"C", "c">>, <<"T", "t">>}

\* The dict d with one more key, k, of value v.
IsPut(d2, d, k, v) ==
    /\ DOMAIN d2 = (DOMAIN d) \cup {k}
    /\ d2[k] = v
    /\ \A x \in (DOMAIN d) \ {k} : d2[x] = d[x]

\* C12: the extension of a file is the extension component of its src_path
\* in lowercase, empty if there is none. has_extension returns False
\* exactly when extension is empty, and then log_details['no_extension'] is
\* True and nothing else of log_details changed; otherwise it returns True
\* and log_details is unchanged. A second has_extension right after one
\* returns what the first returned and leaves log_details as the first
\* left it.
C12_Extension ==
    /\ fb.state = "live" => IsLowerOf(fb.extension, ExtComponent(fb.src_path))
    /\ LastIs("has_extension") =>
          /\ ret \in {"True", "False"}
          /\ ret = "False" <=> hist[1].pre.extension = EmptyStr
          /\ ret = "False" =>
                IsPut(fb.log_details, hist[1].pre.log_details, "no_extension", TRUE)
          /\ ret = "True" => fb.log_details = hist[1].pre.log_details
    /\ LastTwoAre("has_extension", "has_extension") =>
          /\ ret = hist[2].ret
          /\ fb.log_details = hist[1].pre.log_details

\* C12 witness: a file whose name is in capitals has the extension in
\* lowercase, and has_extension twice on it returned True twice.
C12_Witness ==
    /\ LastTwoAre("has_extension", "has_extension")
    /\ ExtComponent(fb.src_path) = <<".", "C">>
    /\ fb.extension = <<".", "c">>
    /\ ret = "True"
    /\ hist[2].ret = "True"

\* C12 witness of the other case: has_extension twice on a file with a dot
\* only in its directory returned False twice and set no_extension once.
C12_WitnessNoExtension ==
    /\ LastTwoAre("has_extension", "has_extension")
    /\ Contains(fb.src_path, Dot)
    /\ fb.extension = EmptyStr
    /\ ret = "False"
    /\ hist[2].ret = "False"
    /\ ~Has(hist[2].pre.log_details, "no_extension")
    /\ fb.log_details["no_extension"] = TRUE

----------------------------------------------------------------------------
(* C13: what the markers and the classifiers leave alone.                  *)

\* From the object f to the object g: src_path, extension, mimetype,
\* main_type, sub_type and the directory of dst_path are the same, and
\* every key of log_details is still there.
Framed(f, g) ==
    /\ g.state = "live"
    /\ g.src_path = f.src_path
    /\ g.extension = f.extension
    /\ g.mimetype = f.mimetype
    /\ g.main_type = f.main_type
    /\ g.sub_type = f.sub_type
    /\ PathSplit(g.dst_path).head = PathSplit(f.dst_path).head
    /\ DOMAIN f.log_details \subseteq DOMAIN g.log_details

\* log_details['filepath'] is src_path.
FilepathKept(f) ==
    /\ Has(f.log_details, "filepath")
    /\ f.log_details["filepath"] = f.src_path

\* C13: every call of make_dangerous, make_unknown, make_binary, force_ext
\* (with an ext that holds no path separator), has_mimetype, has_extension
\* and is_symlink leaves src_path, extension, mimetype, main_type, sub_type
\* and the directory of dst_path as they were, removes no key of
\* log_details, and log_details['filepath'] is src_path from the
\* construction on: so after any sequence of them all are as constructed.
C13_Frame ==
    [][/\ fb.state = "live" => Framed(fb, fb')
       /\ fb'.state = "live" => FilepathKept(fb')]_vars

\* C13 witness: after three calls, the last two a marker and force_ext that
\* both changed dst_path and added a key each, the directory of dst_path
\* (one written with two slashes) is what it was and the object is
\* otherwise as it was two calls before.
C13_Witness ==
    /\ nops = 3
    /\ LastTwoAre("make_dangerous", "force_ext")
    /\ ~Contains(hist[1].arg, Slash)
    /\ hist[2].pre.dst_path = <<"d","/","/","x",".","t">>
    /\ hist[1].pre.dst_path # hist[2].pre.dst_path
    /\ fb.dst_path # hist[1].pre.dst_path
    /\ PathSplit(fb.dst_path).head = <<"d">>
    /\ Framed(hist[2].pre, fb)
    /\ FilepathKept(fb)
    /\ {"dangerous", "force_ext"} \subseteq DOMAIN fb.log_details
    /\ ~Has(hist[2].pre.log_details, "dangerous")

====
